---------------------------- MODULE Spec2Model ----------------------------
(***************************************************************************)
(* A model of one node of charsterekt/rust-blockchain (src/src/main.rs,    *)
(* src/src/p2p.rs): the block and chain validity rules, the proof-of-work  *)
(* search, the fork choice, and the select! loop of main() that handles    *)
(* the init signal, queued chain responses, command lines and inbound      *)
(* floodsub / mdns events.                                                 *)
(*                                                                         *)
(* Strings (String, &str, &[u8]) are sequences of byte values (ASCII       *)
(* codes), so that starts_with, strip_prefix, hex encoding and decoding    *)
(* and the binary rendering are computed, not assumed.  Peer identifiers   *)
(* are only ever compared, so they are TLA+ strings.                       *)
(***************************************************************************)
EXTENDS Integers, Sequences, FiniteSets, TLC

(***************************************************************************)
(* Bounds of the model.                                                    *)
(***************************************************************************)
\* longest chain a peer sends, and longest live chain that is still extended
MaxChain == 2
\* most chain responses waiting in the response channel
MaxQueue == 1

(***************************************************************************)
(* String literals of the source, as byte sequences.                       *)
(***************************************************************************)
\* "00"
DIFFICULTY_PREFIX == <<48, 48>>
\* "Genesis Hash"
GENESIS_HASH == <<71, 101, 110, 101, 115, 105, 115, 32, 72, 97, 115, 104>>
\* "---"
GENESIS_PREV_HASH == <<45, 45, 45>>
\* "Genesis Block"
GENESIS_DATA == <<71, 101, 110, 101, 115, 105, 115, 32, 66, 108, 111, 99, 107>>
GENESIS_NONCE == 2108
\* "ls peers"
CMD_LS_PEERS == <<108, 115, 32, 112, 101, 101, 114, 115>>
\* "ls chain"
CMD_LS_CHAIN == <<108, 115, 32, 99, 104, 97, 105, 110>>
\* "create block"
CMD_CREATE_BLOCK == <<99, 114, 101, 97, 116, 101, 32, 98, 108, 111, 99, 107>>
\* "create b", the prefix handle_create_block strips
CREATE_STRIP_PREFIX == <<99, 114, 101, 97, 116, 101, 32, 98>>

(***************************************************************************)
(* str::starts_with and str::strip_prefix.                                 *)
(***************************************************************************)
starts_with(s, prefix) ==
    /\ Len(s) >= Len(prefix)
    /\ SubSeq(s, 1, Len(prefix)) = prefix

\* Some(rest) is [some |-> TRUE, val |-> rest]; None is [some |-> FALSE, val |-> <<>>]
strip_prefix(s, prefix) ==
    IF starts_with(s, prefix)
    THEN [some |-> TRUE, val |-> SubSeq(s, Len(prefix) + 1, Len(s))]
    ELSE [some |-> FALSE, val |-> <<>>]

(***************************************************************************)
(* format!("{:b}", c): the base-2 digits of a byte with no leading zeros   *)
(* (0 renders as "0"), and hash_to_binary_representation, which            *)
(* concatenates the renderings of the bytes.                               *)
(***************************************************************************)
RECURSIVE format_b(_)
format_b(c) ==
    IF c < 2 THEN <<48 + c>>
    ELSE Append(format_b(c \div 2), 48 + (c % 2))

RECURSIVE hash_to_binary_representation(_)
hash_to_binary_representation(hash) ==
    IF hash = <<>> THEN <<>>
    ELSE format_b(Head(hash)) \o hash_to_binary_representation(Tail(hash))

(***************************************************************************)
(* hex::encode (lower case, two digits per byte) and hex::decode (accepts  *)
(* both cases; an odd length or a character that is no hex digit is an     *)
(* error).                                                                 *)
(***************************************************************************)
hex_digit(n) == IF n < 10 THEN 48 + n ELSE 87 + n

RECURSIVE hex_encode(_)
hex_encode(bytes) ==
    IF bytes = <<>> THEN <<>>
    ELSE <<hex_digit(Head(bytes) \div 16), hex_digit(Head(bytes) % 16)>>
            \o hex_encode(Tail(bytes))

\* the value of a hex digit character, -1 when it is none
hex_val(c) ==
    IF c >= 48 /\ c <= 57 THEN c - 48
    ELSE IF c >= 97 /\ c <= 102 THEN c - 87
    ELSE IF c >= 65 /\ c <= 70 THEN c - 55
    ELSE -1

\* Ok(bytes) is [ok |-> TRUE, val |-> bytes]; Err is [ok |-> FALSE, val |-> <<>>]
hex_decode(s) ==
    IF \/ Len(s) % 2 # 0
       \/ \E i \in 1..Len(s) : hex_val(s[i]) = -1
    THEN [ok |-> FALSE, val |-> <<>>]
    ELSE [ok |-> TRUE,
          val |-> [i \in 1..(Len(s) \div 2) |->
                      16 * hex_val(s[2 * i - 1]) + hex_val(s[2 * i])]]

(***************************************************************************)
(* serde_json's text of the value built by json!({...}) in calculate_hash. *)
(* A serde_json object is a map ordered by key, so the text lists the keys *)
(* in the order block_id, data, nonce, prev_hash, timestamp.  Numbers are  *)
(* rendered in base 10; in a string the quote and the backslash are        *)
(* escaped with a backslash.                                               *)
(***************************************************************************)
RECURSIVE json_number(_)
json_number(n) ==
    IF n < 10 THEN <<48 + n>>
    ELSE Append(json_number(n \div 10), 48 + (n % 10))

RECURSIVE json_escape(_)
json_escape(s) ==
    IF s = <<>> THEN <<>>
    ELSE (IF Head(s) \in {34, 92} THEN <<92, Head(s)>> ELSE <<Head(s)>>)
            \o json_escape(Tail(s))

json_string(s) == <<34>> \o json_escape(s) \o <<34>>

\* {"block_id":..,"data":"..","nonce":..,"prev_hash":"..","timestamp":..}
json_to_string(block_id, timestamp, prev_hash, data, nonce) ==
    <<123>>
    \o json_string(<<98, 108, 111, 99, 107, 95, 105, 100>>) \o <<58>>
    \o json_number(block_id) \o <<44>>
    \o json_string(<<100, 97, 116, 97>>) \o <<58>>
    \o json_string(data) \o <<44>>
    \o json_string(<<110, 111, 110, 99, 101>>) \o <<58>>
    \o json_number(nonce) \o <<44>>
    \o json_string(<<112, 114, 101, 118, 95, 104, 97, 115, 104>>) \o <<58>>
    \o json_string(prev_hash) \o <<44>>
    \o json_string(<<116, 105, 109, 101, 115, 116, 97, 109, 112>>) \o <<58>>
    \o json_number(timestamp)
    \o <<125>>

(***************************************************************************)
(* Sha256 (crate sha2) is not code of the repository.  It is modelled as a *)
(* fixed function of the bytes it is given, computed from a weighted sum   *)
(* of them, whose digest has two bytes instead of 32, each one of 0, 1 and *)
(* 171: small enough for the search of mine_block to end after a few       *)
(* nonces, and with digests that do and digests that do not meet the       *)
(* difficulty.                                                             *)
(***************************************************************************)
RECURSIVE sha256_sum(_, _, _)
sha256_sum(bytes, lo, hi) ==
    IF lo > hi THEN 0
    ELSE IF lo = hi THEN (lo * bytes[lo]) % 4093
    ELSE LET mid == (lo + hi) \div 2
         IN  (sha256_sum(bytes, lo, mid) + sha256_sum(bytes, mid + 1, hi)) % 4093

Sha256(bytes) ==
    LET sum == sha256_sum(bytes, 1, Len(bytes))
        h == (sum * sum + 3 * sum + 5) % 4093
        byte(k) == IF k = 0 THEN 0 ELSE IF k = 1 THEN 1 ELSE 171
    IN  <<byte(2 * (h % 2)), byte((h \div 2) % 3)>>

\* the hex renderings of the digests Sha256 has
HexDigests ==
    { hex_encode(<<a, b>>) : a \in {0, 171}, b \in {0, 1, 171} }

(***************************************************************************)
(* calculate_hash: Sha256 of the JSON text of the five fields.  The runs   *)
(* hash the same few field values again and again, so the digests of the   *)
(* values in HashTable are tabulated once    (@@ makes the table a table   *)
(* of values); the digest of any other value is computed where it is       *)
(* needed.  Both give Sha256(json_to_string(..)).                          *)
(***************************************************************************)
HashedIds == 0..(MaxChain + 9)
HashedTimestamps == {5}
HashedHashes ==
    LET hs == HexDigests \cup {GENESIS_HASH, GENESIS_PREV_HASH}
    IN  hs \cup { Append(h, 48) : h \in hs }
\* "hi", "yo", "lock hi", "locks", ""
HashedData ==
    {<<104, 105>>, <<121, 111>>, <<108, 111, 99, 107, 32, 104, 105>>,
     <<108, 111, 99, 107, 115>>, <<>>}
HashedNonces == 0..19

HashTable ==
    [block_id \in HashedIds |->
        [timestamp \in HashedTimestamps |->
            [prev_hash \in HashedHashes |->
                [data \in HashedData |->
                    [nonce \in HashedNonces |->
                        Sha256(json_to_string(block_id, timestamp, prev_hash, data, nonce))]
                    @@ <<>>] @@ <<>>] @@ <<>>] @@ <<>>] @@ <<>>

calculate_hash(block_id, timestamp, prev_hash, data, nonce) ==
    IF /\ block_id \in HashedIds
       /\ timestamp \in HashedTimestamps
       /\ prev_hash \in HashedHashes
       /\ data \in HashedData
       /\ nonce \in HashedNonces
    THEN HashTable[block_id][timestamp][prev_hash][data][nonce]
    ELSE Sha256(json_to_string(block_id, timestamp, prev_hash, data, nonce))

(***************************************************************************)
(* mine_block: the nonces 0, 1, 2, ... in turn, until the binary rendering *)
(* of the hash starts with DIFFICULTY_PREFIX.  mine_from is the loop from  *)
(* a given nonce on.                                                       *)
(***************************************************************************)
RECURSIVE mine_from(_, _, _, _, _)
mine_from(nonce, block_id, timestamp, prev_hash, data) ==
    LET hash == calculate_hash(block_id, timestamp, prev_hash, data, nonce)
        bin_hash == hash_to_binary_representation(hash)
    IN  IF starts_with(bin_hash, DIFFICULTY_PREFIX)
        THEN [nonce |-> nonce, hash |-> hex_encode(hash)]
        ELSE mine_from(nonce + 1, block_id, timestamp, prev_hash, data)

\* mine_block with the search started at nonce 1
mine_block_from_one(block_id, timestamp, prev_hash, data) ==
    mine_from(1, block_id, timestamp, prev_hash, data)

mine_block(block_id, timestamp, prev_hash, data) ==
    mine_from(0, block_id, timestamp, prev_hash, data)

(***************************************************************************)
(* struct Block, Block::new (now is the clock reading it takes) and the    *)
(* block App::genesis pushes.                                              *)
(***************************************************************************)
Block(block_id, hash, prev_hash, timestamp, data, nonce) ==
    [block_id |-> block_id, hash |-> hash, prev_hash |-> prev_hash,
     timestamp |-> timestamp, data |-> data, nonce |-> nonce]

Block_new(block_id, prev_hash, data, now) ==
    LET mined == mine_block(block_id, now, prev_hash, data)
    IN  Block(block_id, mined.hash, prev_hash, now, data, mined.nonce)

genesis_block(now) ==
    Block(0, GENESIS_HASH, GENESIS_PREV_HASH, now, GENESIS_DATA, GENESIS_NONCE)

(***************************************************************************)
(* App::is_block_valid.  The result is the rule that rejects the block     *)
(* (the warning the code logs), "valid" when the code returns true, and    *)
(* "panic" when hex::decode(..).expect("Can't decode from Hex") panics.    *)
(***************************************************************************)
is_block_valid(block, prev_block) ==
    IF block.prev_hash # prev_block.hash THEN "wrong previous hash"
    ELSE LET decoded == hex_decode(block.hash)
         IN  IF ~decoded.ok THEN "panic"
             ELSE IF ~starts_with(hash_to_binary_representation(decoded.val),
                                  DIFFICULTY_PREFIX)
             THEN "invalid difficulty"
             ELSE IF block.block_id # prev_block.block_id + 1 THEN "not the next block"
             ELSE IF hex_encode(calculate_hash(block.block_id, block.timestamp,
                                               block.prev_hash, block.data, block.nonce))
                        # block.hash
             THEN "invalid hash"
             ELSE "valid"

(***************************************************************************)
(* App::is_chain_valid: the pairs (chain[i-1], chain[i]) in index order,   *)
(* index 0 skipped; "true", "false", or "panic" when a call of             *)
(* is_block_valid panics before any pair was rejected.  Sequences are      *)
(* 1-based here, so the code's index i is i + 1.                           *)
(***************************************************************************)
RECURSIVE chain_valid_from(_, _)
chain_valid_from(chain, i) ==
    IF i > Len(chain) THEN "true"
    ELSE LET v == is_block_valid(chain[i], chain[i - 1])
         IN  IF v = "panic" THEN "panic"
             ELSE IF v # "valid" THEN "false"
             ELSE chain_valid_from(chain, i + 1)

\* is_chain_valid with the first pair skipped as well
is_chain_valid_from_second_pair(chain) == chain_valid_from(chain, 3)

is_chain_valid(chain) == chain_valid_from(chain, 2)

(***************************************************************************)
(* App::choose_chain.  The result is [panic |-> FALSE, chain |-> c] when   *)
(* the code returns c, and [panic |-> TRUE, ...] when it panics: in one of *)
(* the two is_chain_valid calls (local first), or with "Local and remote   *)
(* chains are both invalid".                                               *)
(***************************************************************************)
Returned(which, chain) == [panic |-> FALSE, msg |-> "", which |-> which, chain |-> chain]
Panicked(msg) == [panic |-> TRUE, msg |-> msg, which |-> "", chain |-> <<>>]

\* choose_chain with the tie going to the remote chain (> for >=)
choose_chain_tie_to_remote(local, remote) ==
    LET is_local_valid == is_chain_valid(local)
        is_remote_valid == is_chain_valid(remote)
    IN  IF is_local_valid = "panic" \/ is_remote_valid = "panic"
        THEN Panicked("Can't decode from Hex")
        ELSE IF is_local_valid = "true" /\ is_remote_valid = "true"
        THEN (IF Len(local) > Len(remote)
              THEN Returned("local", local)
              ELSE Returned("remote", remote))
        ELSE IF is_remote_valid = "true" /\ is_local_valid # "true"
        THEN Returned("remote", remote)
        ELSE IF is_local_valid = "true" /\ is_remote_valid # "true"
        THEN Returned("local", local)
        ELSE Panicked("Local and remote chains are both invalid")

choose_chain(local, remote) ==
    LET is_local_valid == is_chain_valid(local)
        is_remote_valid == is_chain_valid(remote)
    IN  IF is_local_valid = "panic" \/ is_remote_valid = "panic"
        THEN Panicked("Can't decode from Hex")
        ELSE IF is_local_valid = "true" /\ is_remote_valid = "true"
        THEN (IF Len(local) >= Len(remote)
              THEN Returned("local", local)
              ELSE Returned("remote", remote))
        ELSE IF is_remote_valid = "true" /\ is_local_valid # "true"
        THEN Returned("remote", remote)
        ELSE IF is_local_valid = "true" /\ is_remote_valid # "true"
        THEN Returned("local", local)
        ELSE Panicked("Local and remote chains are both invalid")

(***************************************************************************)
(* The node's identity and the gossip topics (p2p.rs, PEER_ID, CHAIN_TOPIC *)
(* and BLOCK_TOPIC).                                                       *)
(***************************************************************************)
PEER_ID == "self"
CHAIN_TOPIC == "chains"
BLOCK_TOPIC == "blockchain"

(***************************************************************************)
(* The environment: the other peers and their addresses, the readings of   *)
(* the clock, the payload strings peers put in blocks, and the lines typed *)
(* on stdin.                                                               *)
(***************************************************************************)
Peers == {"p1", "p2"}
Addrs == {"a1", "a2", "a3"}
Timestamps == {5}
\* "hi"
DataChoices == {<<104, 105>>}
\* "ls peers", "ls chain", "ls chains", "ls peers ", "create block hi",
\* "create blocks", "create b", "help"
CommandLines ==
    { CMD_LS_PEERS, CMD_LS_CHAIN, Append(CMD_LS_CHAIN, 115), Append(CMD_LS_PEERS, 32),
      CMD_CREATE_BLOCK \o <<32, 104, 105>>, Append(CMD_CREATE_BLOCK, 115),
      CREATE_STRIP_PREFIX, <<104, 101, 108, 112>> }

Last(chain) == chain[Len(chain)]

(***************************************************************************)
(* The gossip payloads.  A payload is the JSON object a peer sent, given   *)
(* by the set `has` of the members it holds and their values; "block"      *)
(* stands for the six members of a Block.  serde_json decodes a struct     *)
(* from an object that holds all of the struct's fields and ignores any    *)
(* other member, so an object can decode as more than one shape.           *)
(***************************************************************************)
NoBlock == Block(0, <<>>, <<>>, 0, <<>>, 0)

Json(has, blockchain, receiver, from_peer_id, block) ==
    [has |-> has, blockchain |-> blockchain, receiver |-> receiver,
     from_peer_id |-> from_peer_id, block |-> block]

\* serde_json::to_string of a ChainResponse, a LocalChainRequest, a Block
ChainResponse_to_json(resp) ==
    Json({"blockchain", "receiver"}, resp.blockchain, resp.receiver, "", NoBlock)
LocalChainRequest_to_json(req) ==
    Json({"from_peer_id"}, <<>>, "", req.from_peer_id, NoBlock)
Block_to_json(block) ==
    Json({"block"}, <<>>, "", "", block)

\* serde_json::from_slice::<T>, for the three shapes
from_slice_ChainResponse(data) ==
    [ok |-> {"blockchain", "receiver"} \subseteq data.has,
     val |-> [blockchain |-> data.blockchain, receiver |-> data.receiver]]
from_slice_LocalChainRequest(data) ==
    [ok |-> "from_peer_id" \in data.has,
     val |-> [from_peer_id |-> data.from_peer_id]]
from_slice_Block(data) ==
    [ok |-> "block" \in data.has, val |-> data.block]

(***************************************************************************)
(* The blocks and chains other peers send.  After a block `prev` a peer    *)
(* sends a block it mined on prev, or a block that breaks one rule of      *)
(* is_block_valid and no other: mined on another hash, mined with another  *)
(* id, hashed but not mined (the first nonce whose hash misses the         *)
(* difficulty), mined and then given other data, or carrying a hash that   *)
(* is no hex string.                                                       *)
(***************************************************************************)
RECURSIVE unmined_from(_, _, _, _, _)
unmined_from(nonce, block_id, timestamp, prev_hash, data) ==
    LET hash == calculate_hash(block_id, timestamp, prev_hash, data, nonce)
    IN  IF ~starts_with(hash_to_binary_representation(hash), DIFFICULTY_PREFIX)
        THEN Block(block_id, hex_encode(hash), prev_hash, timestamp, data, nonce)
        ELSE unmined_from(nonce + 1, block_id, timestamp, prev_hash, data)

\* "yo" when data is "hi", and "hi" otherwise
OtherData(data) == IF data = <<104, 105>> THEN <<121, 111>> ELSE <<104, 105>>

MinedOn(prev) ==
    { Block_new(prev.block_id + 1, prev.hash, d, t) : d \in DataChoices, t \in Timestamps }

BrokenOn(prev) ==
    LET d == <<104, 105>>
        t == CHOOSE x \in Timestamps : TRUE
        good == Block_new(prev.block_id + 1, prev.hash, d, t)
    IN  { Block_new(prev.block_id + 1, Append(prev.hash, 48), d, t),
          Block_new(prev.block_id + 2, prev.hash, d, t),
          unmined_from(0, prev.block_id + 1, t, prev.hash, d),
          [good EXCEPT !.data = OtherData(d)],
          [good EXCEPT !.hash = GENESIS_HASH] }

SentAfter(prev) == MinedOn(prev) \cup BrokenOn(prev)

\* the blocks a peer puts at index 0: a genesis block, or any other block
FirstBlocks ==
    { genesis_block(t) : t \in Timestamps }
        \cup { Block(7, GENESIS_PREV_HASH, GENESIS_PREV_HASH, t, <<104, 105>>, 0) :
                 t \in Timestamps }

RECURSIVE ChainsOfLen(_)
ChainsOfLen(n) ==
    IF n = 0 THEN { <<>> }
    ELSE IF n = 1 THEN { <<b>> : b \in FirstBlocks }
    ELSE UNION { { Append(c, b) : b \in SentAfter(Last(c)) } : c \in ChainsOfLen(n - 1) }

RemoteChains == UNION { ChainsOfLen(n) : n \in 0..MaxChain }

\* a chain of the longest length peers send that passes is_chain_valid
SomeValidChain ==
    CHOOSE c \in RemoteChains : Len(c) = MaxChain /\ is_chain_valid(c) = "true"

\* a FloodsubEvent::Message: the payload and the peer it comes from
Message(data, source) == [data |-> data, source |-> source]

\* The messages that reach the node.  Peer p1 sends chain responses for the
\* node, chain requests, and objects that decode as none of the shapes;
\* peer p2 sends a chain response for p1.
ResponseMessages ==
    { Message(Json({"blockchain", "receiver"}, c, PEER_ID, "", NoBlock), "p1") :
        c \in RemoteChains }
        \cup { Message(Json({"blockchain", "receiver"}, SomeValidChain, "p1", "", NoBlock), "p2") }

RequestMessages ==
    { Message(Json({"from_peer_id"}, <<>>, "", p, NoBlock), "p1") : p \in {PEER_ID, "p2"} }

UndecodableMessages ==
    { Message(Json({}, <<>>, "", "", NoBlock), "p1"),
      Message(Json({"receiver"}, <<>>, PEER_ID, "", NoBlock), "p1"),
      Message(Json({"blockchain"}, <<>>, "", "", NoBlock), "p1") }

\* the blocks p1 sends when the live chain of the node is `chain`
BlockMessages(chain) ==
    { Message(Json({"block"}, <<>>, "", "", b), "p1") :
        b \in IF chain = <<>> THEN FirstBlocks ELSE SentAfter(Last(chain)) }

\* objects that decode as more than one shape, each holding a block the
\* node would append: the ones with all members come from p1, the ones
\* with a from_peer_id and a block from p2
AmbiguousMessages(chain) ==
    LET mined == IF chain = <<>> THEN CHOOSE b \in FirstBlocks : TRUE
                 ELSE CHOOSE b \in MinedOn(Last(chain)) : TRUE
    IN  { Message(Json({"blockchain", "receiver", "from_peer_id", "block"},
                       SomeValidChain, PEER_ID, PEER_ID, mined), "p1"),
          Message(Json({"blockchain", "receiver", "from_peer_id", "block"},
                       SomeValidChain, "p1", PEER_ID, mined), "p1"),
          Message(Json({"from_peer_id", "block"}, <<>>, "", PEER_ID, mined), "p2"),
          Message(Json({"from_peer_id", "block"}, <<>>, "", "p1", mined), "p2") }

InboundMessages(chain) ==
    ResponseMessages \cup RequestMessages \cup UndecodableMessages
        \cup BlockMessages(chain) \cup AmbiguousMessages(chain)

(***************************************************************************)
(* The state of the node.                                                  *)
(***************************************************************************)
VARIABLES
    \* App.blockchain, the live chain
    blockchain,
    \* "running", or "panicked" once a panic has unwound main()
    status,
    \* the message of that panic
    panic_msg,
    \* the init channel and its timer task: "sleeping" while the task sleeps,
    \* "sent" while the init event waits in the channel, "handled" afterwards
    init_state,
    \* the response channel: the ChainResponse values sent and not yet received
    response_channel,
    \* the (topic, payload) pairs the last handled event passed to floodsub.publish
    published,
    \* the (peer, address) pairs mdns lists as discovered
    mdns_nodes,
    \* the peers in floodsub's partial view
    partial_view,
    \* the call of a pure function under check (its arguments and its result);
    \* NoCall in the runs of the node
    call

vars == <<blockchain, status, panic_msg, init_state, response_channel, published,
          mdns_nodes, partial_view, call>>

NoCall == [op |-> "none"]

Init ==
    /\ blockchain = <<>>
    /\ status = "running"
    /\ panic_msg = ""
    /\ init_state = "sleeping"
    /\ response_channel = <<>>
    /\ published = <<>>
    /\ mdns_nodes = {}
    /\ partial_view = {}
    /\ call = NoCall

\* a panic in the task of main(): the process ends, with the state as it was
Panic(msg) ==
    /\ status' = "panicked"
    /\ panic_msg' = msg
    /\ published' = <<>>
    /\ UNCHANGED <<blockchain, init_state, response_channel, mdns_nodes, partial_view, call>>

Publish(topic, payload) == [topic |-> topic, payload |-> payload]

(***************************************************************************)
(* The task main() spawns: sleep one second, then send the init event.     *)
(***************************************************************************)
\* the timer task sending the init event again after each handling
SendInitEvent_repeating ==
    /\ status = "running"
    /\ init_state \in {"sleeping", "handled"}
    /\ init_state' = "sent"
    /\ UNCHANGED <<blockchain, status, panic_msg, response_channel, published,
                   mdns_nodes, partial_view, call>>

SendInitEvent ==
    /\ status = "running"
    /\ init_state = "sleeping"
    /\ init_state' = "sent"
    /\ UNCHANGED <<blockchain, status, panic_msg, response_channel, published,
                   mdns_nodes, partial_view, call>>

(***************************************************************************)
(* p2p::get_list_peers: the peers of mdns.discovered_nodes(), without      *)
(* duplicates, in the order of a HashSet (any order).                      *)
(***************************************************************************)
get_list_peers == { e[1] : e \in mdns_nodes }

(***************************************************************************)
(* EventType::Init: App::genesis pushes the genesis block; with peers, a   *)
(* LocalChainRequest naming the last peer of the list is published.        *)
(***************************************************************************)
HandleInit ==
    /\ status = "running"
    /\ init_state = "sent"
    /\ init_state' = "handled"
    /\ \E now \in Timestamps : blockchain' = Append(blockchain, genesis_block(now))
    /\ LET peers == get_list_peers
       IN  IF peers # {}
           THEN \E last \in peers :
                    published' = << Publish(CHAIN_TOPIC,
                        LocalChainRequest_to_json([from_peer_id |-> last])) >>
           ELSE published' = <<>>
    /\ UNCHANGED <<status, panic_msg, response_channel, mdns_nodes, partial_view, call>>

(***************************************************************************)
(* EventType::LocalChainResponse: the response received from the response  *)
(* channel is published on the chains topic.                               *)
(***************************************************************************)
HandleLocalChainResponse ==
    /\ status = "running"
    /\ response_channel # <<>>
    /\ response_channel' = Tail(response_channel)
    /\ published' = << Publish(CHAIN_TOPIC, ChainResponse_to_json(Head(response_channel))) >>
    /\ UNCHANGED <<blockchain, status, panic_msg, init_state, mdns_nodes, partial_view, call>>

(***************************************************************************)
(* p2p::handle_create_block.                                               *)
(***************************************************************************)
\* handle_create_block giving the new block the id of the latest block
handle_create_block_same_id(cmd) ==
    LET stripped == strip_prefix(cmd, CREATE_STRIP_PREFIX)
    IN  IF stripped.some
        THEN IF blockchain = <<>>
             THEN Panic("there is at least one block")
             ELSE \E now \in Timestamps :
                    LET latest_block == Last(blockchain)
                        block == Block_new(latest_block.block_id,
                                           latest_block.hash, stripped.val, now)
                    IN  /\ blockchain' = Append(blockchain, block)
                        /\ published' = << Publish(BLOCK_TOPIC, Block_to_json(block)) >>
                        /\ UNCHANGED <<status, panic_msg, init_state, response_channel,
                                       mdns_nodes, partial_view, call>>
        ELSE /\ published' = <<>>
             /\ UNCHANGED <<blockchain, status, panic_msg, init_state, response_channel,
                            mdns_nodes, partial_view, call>>

handle_create_block(cmd) ==
    LET stripped == strip_prefix(cmd, CREATE_STRIP_PREFIX)
    IN  IF stripped.some
        THEN IF blockchain = <<>>
             THEN Panic("there is at least one block")
             ELSE \E now \in Timestamps :
                    LET latest_block == Last(blockchain)
                        block == Block_new(latest_block.block_id + 1,
                                           latest_block.hash, stripped.val, now)
                    IN  /\ blockchain' = Append(blockchain, block)
                        /\ published' = << Publish(BLOCK_TOPIC, Block_to_json(block)) >>
                        /\ UNCHANGED <<status, panic_msg, init_state, response_channel,
                                       mdns_nodes, partial_view, call>>
        ELSE /\ published' = <<>>
             /\ UNCHANGED <<blockchain, status, panic_msg, init_state, response_channel,
                            mdns_nodes, partial_view, call>>

(***************************************************************************)
(* EventType::Input(line): the match on the line in main().                *)
(***************************************************************************)
HandleInput(line) ==
    /\ status = "running"
    /\ IF line = CMD_LS_PEERS \/ starts_with(line, CMD_LS_CHAIN)
       THEN /\ published' = <<>>
            /\ UNCHANGED <<blockchain, status, panic_msg, init_state, response_channel,
                           mdns_nodes, partial_view, call>>
       ELSE IF starts_with(line, CMD_CREATE_BLOCK)
       THEN /\ Len(blockchain) < MaxChain
            /\ handle_create_block(line)
       ELSE /\ published' = <<>>
            /\ UNCHANGED <<blockchain, status, panic_msg, init_state, response_channel,
                           mdns_nodes, partial_view, call>>

(***************************************************************************)
(* App::try_add_block.                                                     *)
(***************************************************************************)
try_add_block(block) ==
    IF blockchain = <<>>
    THEN Panic("There is at least one block in the chain")
    ELSE LET latest_block == Last(blockchain)
             v == is_block_valid(block, latest_block)
         IN  IF v = "panic"
             THEN Panic("Can't decode from Hex")
             ELSE /\ blockchain' = IF v = "valid" THEN Append(blockchain, block)
                                   ELSE blockchain
                  /\ published' = <<>>
                  /\ UNCHANGED <<status, panic_msg, init_state, response_channel,
                                 mdns_nodes, partial_view, call>>

(***************************************************************************)
(* NetworkBehaviourEventProcess<FloodsubEvent>::inject_event for a         *)
(* FloodsubEvent::Message with payload `data` from peer `source`, split    *)
(* by the branch of the if / else-if chain that is taken.                  *)
(***************************************************************************)
\* OnChainResponse without the check of the receiver
OnChainResponse_any_receiver(resp) ==
    LET chosen == choose_chain(blockchain, resp.blockchain)
    IN  IF chosen.panic
        THEN Panic(chosen.msg)
        ELSE /\ blockchain' = chosen.chain
             /\ published' = <<>>
             /\ UNCHANGED <<status, panic_msg, init_state, response_channel,
                            mdns_nodes, partial_view, call>>

OnChainResponse(resp) ==
    IF resp.receiver = PEER_ID
    THEN LET chosen == choose_chain(blockchain, resp.blockchain)
         IN  IF chosen.panic
             THEN Panic(chosen.msg)
             ELSE /\ blockchain' = chosen.chain
                  /\ published' = <<>>
                  /\ UNCHANGED <<status, panic_msg, init_state, response_channel,
                                 mdns_nodes, partial_view, call>>
    ELSE /\ published' = <<>>
         /\ UNCHANGED <<blockchain, status, panic_msg, init_state, response_channel,
                        mdns_nodes, partial_view, call>>

\* OnLocalChainRequest with the response addressed to the peer the request
\* names instead of the peer it comes from
OnLocalChainRequest_answers_named_peer(req, source) ==
    IF PEER_ID = req.from_peer_id
    THEN /\ Len(response_channel) < MaxQueue
         /\ response_channel' = Append(response_channel,
                [blockchain |-> blockchain, receiver |-> req.from_peer_id])
         /\ published' = <<>>
         /\ UNCHANGED <<blockchain, status, panic_msg, init_state, mdns_nodes,
                        partial_view, call>>
    ELSE /\ published' = <<>>
         /\ UNCHANGED <<blockchain, status, panic_msg, init_state, response_channel,
                        mdns_nodes, partial_view, call>>

OnLocalChainRequest(req, source) ==
    IF PEER_ID = req.from_peer_id
    THEN /\ Len(response_channel) < MaxQueue
         /\ response_channel' = Append(response_channel,
                [blockchain |-> blockchain, receiver |-> source])
         /\ published' = <<>>
         /\ UNCHANGED <<blockchain, status, panic_msg, init_state, mdns_nodes,
                        partial_view, call>>
    ELSE /\ published' = <<>>
         /\ UNCHANGED <<blockchain, status, panic_msg, init_state, response_channel,
                        mdns_nodes, partial_view, call>>

OnBlock(block) ==
    /\ IF Len(blockchain) < MaxChain THEN TRUE
       ELSE is_block_valid(block, Last(blockchain)) # "valid"
    /\ try_add_block(block)

\* inject_event with the three shapes tried in the reverse order
inject_event_block_first(data, source) ==
    IF from_slice_Block(data).ok
    THEN OnBlock(from_slice_Block(data).val)
    ELSE IF from_slice_LocalChainRequest(data).ok
    THEN OnLocalChainRequest(from_slice_LocalChainRequest(data).val, source)
    ELSE IF from_slice_ChainResponse(data).ok
    THEN OnChainResponse(from_slice_ChainResponse(data).val)
    ELSE /\ published' = <<>>
         /\ UNCHANGED <<blockchain, status, panic_msg, init_state, response_channel,
                        mdns_nodes, partial_view, call>>

inject_event(data, source) ==
    IF from_slice_ChainResponse(data).ok
    THEN OnChainResponse(from_slice_ChainResponse(data).val)
    ELSE IF from_slice_LocalChainRequest(data).ok
    THEN OnLocalChainRequest(from_slice_LocalChainRequest(data).val, source)
    ELSE IF from_slice_Block(data).ok
    THEN OnBlock(from_slice_Block(data).val)
    ELSE /\ published' = <<>>
         /\ UNCHANGED <<blockchain, status, panic_msg, init_state, response_channel,
                        mdns_nodes, partial_view, call>>

InjectFloodsubMessage(data, source) ==
    /\ status = "running"
    /\ inject_event(data, source)

(***************************************************************************)
(* NetworkBehaviourEventProcess<MdnsEvent>::inject_event.  mdns has        *)
(* already added the discovered entries to, and dropped the expired ones   *)
(* from, the table that discovered_nodes() and has_node() read.            *)
(***************************************************************************)
has_node(nodes, peer) == \E e \in nodes : e[1] = peer

InjectMdnsDiscovered(discovered_list) ==
    /\ status = "running"
    /\ mdns_nodes' = mdns_nodes \cup discovered_list
    /\ partial_view' = partial_view \cup { e[1] : e \in discovered_list }
    /\ published' = <<>>
    /\ UNCHANGED <<blockchain, status, panic_msg, init_state, response_channel, call>>

\* the expiry handler without the has_node test of p2p.rs:100
InjectMdnsExpired_without_has_node(expired_list) ==
    /\ status = "running"
    /\ mdns_nodes' = mdns_nodes \ expired_list
    /\ partial_view' = partial_view \ { e[1] : e \in expired_list }
    /\ published' = <<>>
    /\ UNCHANGED <<blockchain, status, panic_msg, init_state, response_channel, call>>

InjectMdnsExpired(expired_list) ==
    /\ status = "running"
    /\ mdns_nodes' = mdns_nodes \ expired_list
    /\ partial_view' = partial_view \
            { e[1] : e \in { x \in expired_list : ~has_node(mdns_nodes', x[1]) } }
    /\ published' = <<>>
    /\ UNCHANGED <<blockchain, status, panic_msg, init_state, response_channel, call>>

(***************************************************************************)
(* The loop of main(): select! takes whichever source is ready.            *)
(***************************************************************************)
\* the entries mdns discovers in the runs of Spec
Discoveries == { {<<"p1", "a1">>} }

Next ==
    \/ SendInitEvent
    \/ HandleInit
    \/ HandleLocalChainResponse
    \/ \E line \in CommandLines : HandleInput(line)
    \/ \E msg \in InboundMessages(blockchain) :
            InjectFloodsubMessage(msg.data, msg.source)
    \/ \E discovered_list \in Discoveries :
            InjectMdnsDiscovered(discovered_list)
    \/ \E expired_list \in (SUBSET mdns_nodes) \ {{}} :
            InjectMdnsExpired(expired_list)

Spec == Init /\ [][Next]_vars

(***************************************************************************)
(* The loop under fair selection: select! polls its branches in a random   *)
(* order, so a branch that stays ready is taken in the end.  The timer     *)
(* task, the init channel and the response channel are such branches;      *)
(* lines, gossip messages and mdns events come from outside and may never  *)
(* come.                                                                   *)
(***************************************************************************)
SpecFair ==
    /\ Spec
    /\ WF_vars(SendInitEvent)
    /\ WF_vars(HandleInit)
    /\ WF_vars(HandleLocalChainResponse)

(***************************************************************************)
(* App::choose_chain as a function of its two arguments: the chains peers  *)
(* send, and longer chains of mined blocks.                                *)
(***************************************************************************)
RECURSIVE ExtendMined(_, _)
ExtendMined(chain, n) ==
    IF n = 0 THEN chain
    ELSE ExtendMined(Append(chain, CHOOSE b \in MinedOn(Last(chain)) : TRUE), n - 1)

ChooseInputs ==
    RemoteChains \cup { ExtendMined(<<f>>, n) : f \in FirstBlocks, n \in 1..(MaxChain + 1) }

InitChoose ==
    /\ blockchain = <<>>
    /\ status = "running"
    /\ panic_msg = ""
    /\ init_state = "sleeping"
    /\ response_channel = <<>>
    /\ published = <<>>
    /\ mdns_nodes = {}
    /\ partial_view = {}
    /\ call \in { [op |-> "choose_chain", local |-> l, remote |-> r, done |-> FALSE,
                   result |-> Panicked("")] : l \in ChooseInputs, r \in ChooseInputs }

CallChooseChain ==
    /\ call.op = "choose_chain"
    /\ ~call.done
    /\ call' = [call EXCEPT !.done = TRUE,
                            !.result = choose_chain(call.local, call.remote)]
    /\ UNCHANGED <<blockchain, status, panic_msg, init_state, response_channel,
                   published, mdns_nodes, partial_view>>

NextChoose == CallChooseChain

SpecChoose == InitChoose /\ [][NextChoose]_vars

(***************************************************************************)
(* App::is_block_valid as a function of its two arguments.  The blocks are *)
(* the blocks peers send after a first block or after a block mined on it, *)
(* and those blocks with some of their fields replaced, so that a block    *)
(* breaks any number of the rules.                                         *)
(***************************************************************************)
\* "ab01", the hex of a digest that misses the difficulty, and "00AB"
OtherHashes == {<<97, 98, 48, 49>>, <<48, 48, 65, 66>>, GENESIS_HASH}

PrevBlocks ==
    FirstBlocks \cup UNION { MinedOn(f) : f \in FirstBlocks }

Tampered(b) ==
    { [b EXCEPT !.hash = h, !.block_id = i, !.data = d] :
        h \in {b.hash} \cup OtherHashes,
        i \in {b.block_id, b.block_id + 1},
        d \in {b.data, OtherData(b.data)} }

BlockValidInputs ==
    UNION { { <<b, prev>> : b \in UNION { Tampered(m) : m \in SentAfter(prev) } } :
              prev \in PrevBlocks }
        \cup { <<b, prev>> : b \in PrevBlocks, prev \in PrevBlocks }

InitBlockValid ==
    /\ blockchain = <<>>
    /\ status = "running"
    /\ panic_msg = ""
    /\ init_state = "sleeping"
    /\ response_channel = <<>>
    /\ published = <<>>
    /\ mdns_nodes = {}
    /\ partial_view = {}
    /\ call \in { [op |-> "is_block_valid", block |-> in[1], prev_block |-> in[2],
                   done |-> FALSE, result |-> ""] : in \in BlockValidInputs }

CallIsBlockValid ==
    /\ call.op = "is_block_valid"
    /\ ~call.done
    /\ call' = [call EXCEPT !.done = TRUE,
                            !.result = is_block_valid(call.block, call.prev_block)]
    /\ UNCHANGED <<blockchain, status, panic_msg, init_state, response_channel,
                   published, mdns_nodes, partial_view>>

NextBlockValid == CallIsBlockValid

SpecBlockValid == InitBlockValid /\ [][NextBlockValid]_vars

(***************************************************************************)
(* App::is_chain_valid as a function of its argument: the chains peers     *)
(* send, up to one block longer.                                           *)
(***************************************************************************)
ChainValidInputs == UNION { ChainsOfLen(n) : n \in 0..(MaxChain + 1) }

InitChainValid ==
    /\ blockchain = <<>>
    /\ status = "running"
    /\ panic_msg = ""
    /\ init_state = "sleeping"
    /\ response_channel = <<>>
    /\ published = <<>>
    /\ mdns_nodes = {}
    /\ partial_view = {}
    /\ call \in { [op |-> "is_chain_valid", chain |-> c, done |-> FALSE, result |-> ""] :
                    c \in ChainValidInputs }

CallIsChainValid ==
    /\ call.op = "is_chain_valid"
    /\ ~call.done
    /\ call' = [call EXCEPT !.done = TRUE, !.result = is_chain_valid(call.chain)]
    /\ UNCHANGED <<blockchain, status, panic_msg, init_state, response_channel,
                   published, mdns_nodes, partial_view>>

NextChainValid == CallIsChainValid

SpecChainValid == InitChainValid /\ [][NextChainValid]_vars

(***************************************************************************)
(* mine_block as a function of its four arguments.                         *)
(***************************************************************************)
MineInputs == HashedIds \X Timestamps \X HashedHashes \X HashedData

InitMine ==
    /\ blockchain = <<>>
    /\ status = "running"
    /\ panic_msg = ""
    /\ init_state = "sleeping"
    /\ response_channel = <<>>
    /\ published = <<>>
    /\ mdns_nodes = {}
    /\ partial_view = {}
    /\ call \in { [op |-> "mine_block", block_id |-> in[1], timestamp |-> in[2],
                   prev_hash |-> in[3], data |-> in[4], done |-> FALSE,
                   result |-> [nonce |-> 0, hash |-> <<>>]] : in \in MineInputs }

CallMineBlock ==
    /\ call.op = "mine_block"
    /\ ~call.done
    /\ call' = [call EXCEPT !.done = TRUE,
                            !.result = mine_block(call.block_id, call.timestamp,
                                                  call.prev_hash, call.data)]
    /\ UNCHANGED <<blockchain, status, panic_msg, init_state, response_channel,
                   published, mdns_nodes, partial_view>>

NextMine == CallMineBlock

SpecMine == InitMine /\ [][NextMine]_vars

(***************************************************************************)
(* The node under every mdns event: each peer may be listed under several  *)
(* addresses, a Discovered event lists any entries, an Expired event lists *)
(* entries mdns has just dropped.  The startup timer and the Init handler  *)
(* run alongside, as get_list_peers reads the same table.                  *)
(***************************************************************************)
MdnsEntries == Peers \X Addrs

NextMdns ==
    \/ SendInitEvent
    \/ HandleInit
    \/ \E discovered_list \in (SUBSET MdnsEntries) \ {{}} :
            InjectMdnsDiscovered(discovered_list)
    \/ \E expired_list \in (SUBSET mdns_nodes) \ {{}} :
            InjectMdnsExpired(expired_list)

SpecMdns == Init /\ [][NextMdns]_vars

(***************************************************************************)
(* The difficulty test of mine_block and is_block_valid as a function of   *)
(* the digest: hash_to_binary_representation, then starts_with.  The       *)
(* digests are all those of one and two bytes, and the shorter and longer  *)
(* ones over a sample of bytes.                                            *)
(***************************************************************************)
\* most bytes of a sampled digest
MaxDigestLen == 3
Bytes == 0..255
SampleBytes == {0, 1, 3, 64, 255}

DigestInputs ==
    [1..1 -> Bytes] \cup [1..2 -> Bytes]
        \cup UNION { [1..n -> SampleBytes] : n \in 0..MaxDigestLen }

InitDifficulty ==
    /\ blockchain = <<>>
    /\ status = "running"
    /\ panic_msg = ""
    /\ init_state = "sleeping"
    /\ response_channel = <<>>
    /\ published = <<>>
    /\ mdns_nodes = {}
    /\ partial_view = {}
    /\ call \in { [op |-> "difficulty", hash |-> h, done |-> FALSE,
                   bin_hash |-> <<>>, result |-> FALSE] : h \in DigestInputs }

\* the test with every byte rendered in eight digits
CallDifficulty_eight_digits ==
    /\ call.op = "difficulty"
    /\ ~call.done
    /\ LET bin_hash == [k \in 1..(8 * Len(call.hash)) |->
                            48 + ((call.hash[((k - 1) \div 8) + 1]
                                    \div (2 ^ (7 - ((k - 1) % 8)))) % 2)]
       IN  call' = [call EXCEPT !.done = TRUE,
                                !.bin_hash = bin_hash,
                                !.result = starts_with(bin_hash, DIFFICULTY_PREFIX)]
    /\ UNCHANGED <<blockchain, status, panic_msg, init_state, response_channel,
                   published, mdns_nodes, partial_view>>

CallDifficulty ==
    /\ call.op = "difficulty"
    /\ ~call.done
    /\ LET bin_hash == hash_to_binary_representation(call.hash)
       IN  call' = [call EXCEPT !.done = TRUE,
                                !.bin_hash = bin_hash,
                                !.result = starts_with(bin_hash, DIFFICULTY_PREFIX)]
    /\ UNCHANGED <<blockchain, status, panic_msg, init_state, response_channel,
                   published, mdns_nodes, partial_view>>

NextDifficulty == CallDifficulty

SpecDifficulty == InitDifficulty /\ [][NextDifficulty]_vars

(***************************************************************************)
(* Properties of choose_chain, checked in SpecChoose.                      *)
(***************************************************************************)
ChooseDone == call.op = "choose_chain" /\ call.done

\* C2: for two chains that both pass is_chain_valid, choose_chain returns
\* the remote chain exactly when it is strictly longer than the local one,
\* and the local chain otherwise (also on equal length).
C2_LongerValidChainWins ==
    (/\ ChooseDone
     /\ is_chain_valid(call.local) = "true"
     /\ is_chain_valid(call.remote) = "true")
        => /\ ~call.result.panic
           /\ call.result.which = "remote" <=> Len(call.remote) > Len(call.local)
           /\ call.result.which = "local" <=> Len(call.remote) <= Len(call.local)
           /\ call.result.chain =
                 IF Len(call.remote) > Len(call.local) THEN call.remote ELSE call.local

\* C2, witness: two different valid chains of the same length, of two blocks
\* or more, and the local one returned.
C2_Witness ==
    /\ ChooseDone
    /\ is_chain_valid(call.local) = "true"
    /\ is_chain_valid(call.remote) = "true"
    /\ Len(call.local) = Len(call.remote)
    /\ Len(call.local) >= 2
    /\ call.local # call.remote
    /\ call.result.which = "local"
    /\ call.result.chain = call.local

\* C3: for two chains of which exactly one passes is_chain_valid,
\* choose_chain returns that one, whatever the lengths.
C3_OnlyValidChainWins ==
    (/\ ChooseDone
     /\ (is_chain_valid(call.local) = "true") # (is_chain_valid(call.remote) = "true"))
        => /\ ~call.result.panic
           /\ call.result.chain =
                 IF is_chain_valid(call.local) = "true" THEN call.local ELSE call.remote

(***************************************************************************)
(* Properties of the node, checked in Spec.  A step of the node is the     *)
(* handling of one event; the properties below are about the steps in      *)
(* which a given message or line is handled.                               *)
(***************************************************************************)
DecodesAsResponse(data) == from_slice_ChainResponse(data).ok
DecodesAsRequest(data) == from_slice_LocalChainRequest(data).ok
DecodesAsBlock(data) == from_slice_Block(data).ok

\* the pairs (chain[i-1], chain[i]) all pass the four rules of is_block_valid
AllPairsValid(chain) ==
    \A i \in 2..Len(chain) : is_block_valid(chain[i], chain[i - 1]) = "valid"

\* C1: when a ChainResponse addressed to the node is handled and both the
\* live chain and the remote chain fail is_chain_valid, the node keeps
\* running and the live chain stays as it was.
C1_BothInvalidIsSurvived ==
    [][LET Handled(msg) ==
              (/\ DecodesAsResponse(msg.data)
               /\ msg.data.receiver = PEER_ID
               /\ is_chain_valid(msg.data.blockchain) = "false"
               /\ InjectFloodsubMessage(msg.data, msg.source))
                  => /\ status' = "running"
                     /\ blockchain' = blockchain
       IN  is_chain_valid(blockchain) = "false"
              => /\ \A msg \in ResponseMessages : Handled(msg)
                 /\ \A msg \in AmbiguousMessages(blockchain) : Handled(msg)]_vars

\* C4: handling a payload that decodes as a Block (and as no shape tried
\* before it) either appends the block, when it passes is_block_valid
\* against the last block, or leaves the live chain unchanged; the node
\* keeps running in both cases.
C4_BlockAppendedOrDropped ==
    [][LET Handled(msg) ==
              (/\ ~DecodesAsResponse(msg.data)
               /\ ~DecodesAsRequest(msg.data)
               /\ DecodesAsBlock(msg.data)
               /\ InjectFloodsubMessage(msg.data, msg.source))
                  => /\ status' = "running"
                     /\ blockchain # <<>>
                     /\ IF is_block_valid(msg.data.block, Last(blockchain)) = "valid"
                        THEN blockchain' = Append(blockchain, msg.data.block)
                        ELSE blockchain' = blockchain
       IN  /\ \A msg \in BlockMessages(blockchain) : Handled(msg)
           /\ \A msg \in AmbiguousMessages(blockchain) : Handled(msg)]_vars

\* C5: in every reachable state every adjacent pair of the live chain
\* passes the four rules of is_block_valid.
C5_LiveChainPairsValid == AllPairsValid(blockchain)

\* C6: handling the init event makes the live chain [genesis] when it is
\* empty and leaves it unchanged otherwise; the init event is handled at
\* most once.
C6_GenesisOnlyOnEmptyChain ==
    [][/\ (HandleInit =>
            (IF blockchain = <<>>
             THEN \E now \in Timestamps : blockchain' = <<genesis_block(now)>>
             ELSE blockchain' = blockchain))
       /\ (init_state = "handled" => init_state' = "handled")]_vars

\* "create block "
CMD_CREATE_BLOCK_SP == Append(CMD_CREATE_BLOCK, 32)

\* C7: the line "create block <data>" on a non-empty chain with last block
\* L appends one block B with B.block_id = L.block_id + 1,
\* B.prev_hash = L.hash and B.data = <data>, and publishes B once on the
\* block topic.
C7_CreateBlockAppendsData ==
    [][\A line \in CommandLines :
          (/\ HandleInput(line)
           /\ starts_with(line, CMD_CREATE_BLOCK_SP)
           /\ blockchain # <<>>)
              => /\ Len(blockchain') = Len(blockchain) + 1
                 /\ SubSeq(blockchain', 1, Len(blockchain)) = blockchain
                 /\ Last(blockchain').block_id = Last(blockchain).block_id + 1
                 /\ Last(blockchain').prev_hash = Last(blockchain).hash
                 /\ Last(blockchain').data =
                        SubSeq(line, Len(CMD_CREATE_BLOCK_SP) + 1, Len(line))
                 /\ published' = << Publish(BLOCK_TOPIC, Block_to_json(Last(blockchain'))) >>
      ]_vars

\* C8: handling a ChainResponse addressed to the node sets the live chain
\* to the chain choose_chain(live chain, response chain) returns, and
\* leaves it as it is when choose_chain returns none; one addressed to
\* another identifier leaves the live chain unchanged; in both cases
\* nothing is queued and nothing is published.
C8_ResponseCommitsChoice ==
    [][LET Handled(msg) ==
              (/\ DecodesAsResponse(msg.data)
               /\ InjectFloodsubMessage(msg.data, msg.source))
                  => /\ response_channel' = response_channel
                     /\ published' = <<>>
                     /\ IF msg.data.receiver = PEER_ID
                        THEN LET chosen == choose_chain(blockchain, msg.data.blockchain)
                             IN  blockchain' = IF chosen.panic THEN blockchain
                                               ELSE chosen.chain
                        ELSE blockchain' = blockchain /\ status' = status
       IN  /\ \A msg \in ResponseMessages : Handled(msg)
           /\ \A msg \in AmbiguousMessages(blockchain) : Handled(msg)]_vars

\* C8, witness: after the init event the live chain is a valid chain of the
\* longest length peers send that starts with a block no node of this code
\* creates: a chain response replaced the live chain.
C8_Witness ==
    /\ status = "running"
    /\ init_state = "handled"
    /\ Len(blockchain) = MaxChain
    /\ blockchain[1].block_id = 7
    /\ is_chain_valid(blockchain) = "true"
    /\ blockchain \in RemoteChains

\* C9: handling a LocalChainRequest that names the node queues one
\* ChainResponse holding the live chain of that moment and the sender of
\* the request as receiver; one that names another identifier queues
\* nothing; the live chain is unchanged in both cases.
C9_RequestQueuesSnapshot ==
    [][LET Handled(msg) ==
              (/\ ~DecodesAsResponse(msg.data)
               /\ DecodesAsRequest(msg.data)
               /\ InjectFloodsubMessage(msg.data, msg.source))
                  => /\ blockchain' = blockchain
                     /\ status' = status
                     /\ published' = <<>>
                     /\ IF msg.data.from_peer_id = PEER_ID
                        THEN response_channel' = Append(response_channel,
                                [blockchain |-> blockchain, receiver |-> msg.source])
                        ELSE response_channel' = response_channel
       IN  /\ \A msg \in RequestMessages : Handled(msg)
           /\ \A msg \in AmbiguousMessages(blockchain) : Handled(msg)]_vars

\* C9, witness: a response for p1 waits in the channel with a snapshot that
\* is no longer the live chain.
C9_Witness ==
    /\ response_channel # <<>>
    /\ Head(response_channel).receiver = "p1"
    /\ Head(response_channel).blockchain # <<>>
    /\ Head(response_channel).blockchain # blockchain

\* C10: only the handler of the first shape that decodes acts.  A payload
\* that decodes as ChainResponse queues nothing and appends no block to
\* the live chain (the chain stays, or becomes the chain choose_chain
\* returns); one that decodes as LocalChainRequest and not as
\* ChainResponse leaves the live chain alone; one that decodes as none of
\* the three changes neither the live chain nor the response channel.
\* (Each case reads "the effect is the one told, or the step is not the
\* handling of msg".)
C10_FirstDecodeWins ==
    [][LET AsResponse(msg) ==
              DecodesAsResponse(msg.data)
                 => \/ /\ response_channel' = response_channel
                       /\ blockchain' = blockchain
                    \/ ~InjectFloodsubMessage(msg.data, msg.source)
                    \/ /\ response_channel' = response_channel
                       /\ msg.data.receiver = PEER_ID
                       /\ blockchain' = choose_chain(blockchain, msg.data.blockchain).chain
           AsRequest(msg) ==
              (~DecodesAsResponse(msg.data) /\ DecodesAsRequest(msg.data))
                 => \/ blockchain' = blockchain /\ status' = status
                    \/ ~InjectFloodsubMessage(msg.data, msg.source)
           AsNone(msg) ==
              (/\ ~DecodesAsResponse(msg.data)
               /\ ~DecodesAsRequest(msg.data)
               /\ ~DecodesAsBlock(msg.data))
                 => \/ UNCHANGED <<blockchain, response_channel, status>>
                    \/ ~InjectFloodsubMessage(msg.data, msg.source)
       IN  /\ \A msg \in ResponseMessages : AsResponse(msg)
           /\ \A msg \in RequestMessages : AsRequest(msg)
           /\ \A msg \in UndecodableMessages : AsNone(msg)
           /\ \A msg \in AmbiguousMessages(blockchain) : AsResponse(msg) /\ AsRequest(msg)]_vars

\* C10, witness: a response for p2 waits in the channel; p2 only sends
\* objects that hold both a from_peer_id and a block, so one of them was
\* handled as a request, and its block was not appended.
C10_Witness ==
    /\ response_channel # <<>>
    /\ Head(response_channel).receiver = "p2"
    /\ Head(response_channel).blockchain = blockchain
    /\ blockchain # <<>>

\* C11: the step that handles a "create block <data>" line only starts the
\* proof-of-work search: the result comes back as a later event, so in
\* that step no block is appended and none is published.
C11_MiningIsDispatched ==
    [][\A line \in CommandLines :
          (/\ starts_with(line, CMD_CREATE_BLOCK_SP)
           /\ blockchain # <<>>
           /\ HandleInput(line))
              => /\ blockchain' = blockchain
                 /\ published' = <<>>]_vars

\* C12: a line that is not "create block <data>" ("ls peers", "ls chain"
\* and every other line) leaves the live chain unchanged, publishes
\* nothing, and the node keeps running.
C12_OtherLinesChangeNothing ==
    [][\A line \in CommandLines :
          (/\ ~starts_with(line, CMD_CREATE_BLOCK_SP)
           /\ HandleInput(line))
              => /\ blockchain' = blockchain
                 /\ published' = <<>>
                 /\ response_channel' = response_channel
                 /\ status' = status]_vars

\* a published payload that is a chain request
IsPublishedRequest(pub) ==
    ~DecodesAsResponse(pub.payload) /\ DecodesAsRequest(pub.payload)

\* C13: a chain request is published only by the step that handles the
\* init event, alone, on the chains topic, naming a peer get_list_peers
\* lists at that moment; and the init event goes from sleeping to sent to
\* handled and never back, so that step happens at most once.
C13_OneRequestAtInit ==
    [][/\ init_state' # init_state
            => <<init_state, init_state'>> \in
                  { <<"sleeping", "sent">>, <<"sent", "handled">> }
       /\ \A i \in 1..Len(published') :
            IsPublishedRequest(published'[i])
               => /\ init_state = "sent"
                  /\ init_state' = "handled"
                  /\ Len(published') = 1
                  /\ published'[i].topic = CHAIN_TOPIC
                  /\ get_list_peers # {}
                  /\ published'[i].payload.from_peer_id \in get_list_peers]_vars

\* C13, witness: the init event was just handled and published a request
\* naming p1.
C13_Witness ==
    /\ init_state = "handled"
    /\ published =
          << Publish(CHAIN_TOPIC, LocalChainRequest_to_json([from_peer_id |-> "p1"])) >>
    /\ "p1" \in get_list_peers

\* C19: a block published on the block topic was mined on the chain as it
\* was before the block was appended to it (old): it decodes as a Block,
\* passes is_block_valid against the last block of old, and old with the
\* block appended, which is what try_add_block makes of old in a node that
\* holds old and receives the block, is the live chain of the miner.
C19_MinedBlockIsAccepted ==
    \A i \in 1..Len(published) :
        published[i].topic = BLOCK_TOPIC
           => LET decoded == from_slice_Block(published[i].payload)
                  old == SubSeq(blockchain, 1, Len(blockchain) - 1)
              IN  /\ decoded.ok
                  /\ Len(blockchain) >= 2
                  /\ is_block_valid(decoded.val, Last(old)) = "valid"
                  /\ Append(old, decoded.val) = blockchain

\* C19, witness: a block created by a command line was just published.
C19_Witness ==
    /\ status = "running"
    /\ Len(published) = 1
    /\ published[1].topic = BLOCK_TOPIC
    /\ Last(blockchain).data = <<108, 111, 99, 107, 32, 104, 105>>

\* C20: once the init event is handled, every change of the live chain is
\* the append of one block, or the replacement by a chain a peer sent that
\* passes is_chain_valid and is strictly longer.
C20_AppendOrLongerValidChain ==
    [][init_state = "handled"
          => \/ blockchain' = blockchain
             \/ /\ Len(blockchain') = Len(blockchain) + 1
                /\ SubSeq(blockchain', 1, Len(blockchain)) = blockchain
             \/ /\ Len(blockchain') > Len(blockchain)
                /\ is_chain_valid(blockchain') = "true"]_vars

(***************************************************************************)
(* Properties of is_block_valid, is_chain_valid and mine_block, checked in *)
(* SpecBlockValid, SpecChainValid and SpecMine.                            *)
(***************************************************************************)
\* the difficulty predicate on a digest
meets_difficulty(hash) ==
    starts_with(hash_to_binary_representation(hash), DIFFICULTY_PREFIX)

\* the four rules, each on its own
Rule1(block, prev_block) == block.prev_hash = prev_block.hash
Rule2(block) ==
    /\ hex_decode(block.hash).ok
    /\ meets_difficulty(hex_decode(block.hash).val)
Rule3(block, prev_block) == block.block_id = prev_block.block_id + 1
Rule4(block) ==
    hex_encode(calculate_hash(block.block_id, block.timestamp, block.prev_hash,
                              block.data, block.nonce)) = block.hash

\* C14: is_block_valid returns true exactly when the four rules hold, and
\* otherwise reports the first rule, in the order 1, 2, 3, 4, that fails.
C14_FirstFailingRuleReported ==
    (call.op = "is_block_valid" /\ call.done)
        => call.result =
              IF ~Rule1(call.block, call.prev_block) THEN "wrong previous hash"
              ELSE IF ~Rule2(call.block) THEN "invalid difficulty"
              ELSE IF ~Rule3(call.block, call.prev_block) THEN "not the next block"
              ELSE IF ~Rule4(call.block) THEN "invalid hash"
              ELSE "valid"

\* the chain with fields of its first block, other than hash and block_id,
\* replaced
FirstBlockTweaks(chain) ==
    { [chain EXCEPT ![1] = [@ EXCEPT !.timestamp = t, !.prev_hash = ph,
                                      !.data = d, !.nonce = n]] :
        t \in {chain[1].timestamp, 6},
        ph \in {chain[1].prev_hash, <<48, 48, 48, 48>>},
        d \in {chain[1].data, <<>>},
        n \in {chain[1].nonce, 3} }

\* C15: is_chain_valid returns true exactly when every pair (chain[i-1],
\* chain[i]) passes is_block_valid; the empty chain and every chain of one
\* block are valid; and the fields of the first block other than its hash
\* and its id have no part in the result.
C15_PairsOnlyFirstBlockTrusted ==
    (call.op = "is_chain_valid" /\ call.done)
        => /\ (call.result = "true") <=> AllPairsValid(call.chain)
           /\ Len(call.chain) <= 1 => call.result = "true"
           /\ call.chain # <<>>
                => \A tweaked \in FirstBlockTweaks(call.chain) :
                       is_chain_valid(tweaked) = call.result

\* C15, witness: a chain of three blocks whose first pair passes and that
\* is found invalid, in its second pair.
C15_Witness ==
    /\ call.op = "is_chain_valid"
    /\ call.done
    /\ Len(call.chain) = 3
    /\ is_block_valid(call.chain[2], call.chain[1]) = "valid"
    /\ call.result = "false"

\* C18: mine_block returns the smallest nonce n >= 0 whose hash meets the
\* difficulty, with the hex of that hash: no nonce below n meets it.
C18_SmallestNonce ==
    (call.op = "mine_block" /\ call.done)
        => LET hash_of(n) == calculate_hash(call.block_id, call.timestamp,
                                            call.prev_hash, call.data, n)
           IN  /\ call.result.nonce >= 0
               /\ meets_difficulty(hash_of(call.result.nonce))
               /\ call.result.hash = hex_encode(hash_of(call.result.nonce))
               /\ \A m \in 0..(call.result.nonce - 1) : ~meets_difficulty(hash_of(m))

\* C18, witness: a search that tried three nonces or more before it ended.
C18_Witness ==
    /\ call.op = "mine_block"
    /\ call.done
    /\ call.result.nonce >= 3

\* a published payload that is a chain response on the chains topic
IsPublishedResponse(pub) ==
    pub.topic = CHAIN_TOPIC /\ DecodesAsResponse(pub.payload)

\* C16: under fair selection a queued chain response is emitted in the
\* end: whenever the response channel is not empty, a later step publishes
\* a chain response on the chains topic.
C16_QueuedResponseIsEmitted ==
    (response_channel # <<>>)
        ~> (\E i \in 1..Len(published) : IsPublishedResponse(published[i]))

\* C16, the part about content and order: the channel changes only by a
\* response appended at its end or by its head taken; the step that takes
\* the head publishes exactly that response, as it was queued, once; and a
\* chain response is published (published changes and then holds one) by
\* no other step.
C16_HeadIsPublishedUnchanged ==
    [][/\ \/ response_channel' = response_channel
          \/ /\ Len(response_channel') = Len(response_channel) + 1
             /\ SubSeq(response_channel', 1, Len(response_channel)) = response_channel
          \/ /\ response_channel # <<>>
             /\ response_channel' = Tail(response_channel)
             /\ published' =
                   << Publish(CHAIN_TOPIC, ChainResponse_to_json(Head(response_channel))) >>
       /\ (/\ published' # published
           /\ \E i \in 1..Len(published') : IsPublishedResponse(published'[i]))
            => /\ response_channel # <<>>
               /\ response_channel' = Tail(response_channel)]_vars


\* C17: a Discovered event puts every listed peer in the gossip recipient
\* view; a step takes a peer out of the view only if mdns no longer lists
\* that peer under any address; so after every step each peer mdns lists
\* is in the view, also when an entry of a peer expires after the peer was
\* discovered again under another address.
C17_ListedPeersStayInView ==
    [][/\ \A discovered_list \in (SUBSET MdnsEntries) \ {{}} :
              InjectMdnsDiscovered(discovered_list)
                  => \A e \in discovered_list : e[1] \in partial_view'
       /\ \A peer \in partial_view \ partial_view' : ~has_node(mdns_nodes', peer)
       /\ \A e \in mdns_nodes' : e[1] \in partial_view']_vars

\* p1 is listed under a2 only and is in the view, p2 is not listed and not
\* in the view
C17_Witness ==
    /\ mdns_nodes = {<<"p1", "a2">>}
    /\ partial_view = {"p1"}


\* C21: a byte is rendered in base 2 without leading zeros (0 gives "0",
\* 3 gives "11", every non-zero byte gives a string starting with "1"), so
\* a digest of two bytes or more passes the difficulty test exactly when
\* its first two bytes are both 0; a digest with first byte 0 and second
\* byte non-zero does not pass, and no digest of one byte or none passes.
C21_DifficultyIsTwoZeroBytes ==
    (call.op = "difficulty" /\ call.done) =>
        LET hash == call.hash
        IN  /\ call.result <=> (Len(hash) >= 2 /\ hash[1] = 0 /\ hash[2] = 0)
            /\ Len(hash) < 2 => ~call.result
            /\ (Len(hash) >= 2 /\ hash[1] = 0 /\ hash[2] # 0) => ~call.result
            /\ hash = <<0>> => call.bin_hash = <<48>>
            /\ hash = <<3>> => call.bin_hash = <<49, 49>>
            /\ (hash # <<>> /\ hash[1] # 0) => Head(call.bin_hash) = 49

\* a digest of three bytes, the first 0 and the second not, has been tested
\* and did not pass
C21_Witness ==
    /\ call.op = "difficulty"
    /\ call.done
    /\ Len(call.hash) = 3
    /\ call.hash[1] = 0
    /\ call.hash[2] # 0
    /\ ~call.result

=============================================================================
